---- MODULE Spec2Model ----
(***************************************************************************)
(* Model of musify_cli.config.operations.tagger._tagger: the compilation   *)
(* of a tagging configuration into a Tagger (Tagger.from_config) and the   *)
(* application of a Tagger to items (Tagger.set_tags, which drives         *)
(* FilteredSetter.set_tags).                                               *)
(*                                                                         *)
(* Filters, Setters and their factories live outside _tagger.py.  They are *)
(* modelled by their contracts: a Filter returns the order-preserving      *)
(* subsequence of its input whose items satisfy a predicate on the current *)
(* tags; a Setter is bound to one field, writes only that field of the     *)
(* item it is given, may read the item and the collection, and may raise.  *)
(***************************************************************************)
EXTENDS Naturals, Sequences, FiniteSets, TLC

VARIABLES
    pc,             \* position of the caller / of the loops of Tagger.set_tags
    config,         \* the argument of the first Tagger.from_config call
    tagger,         \* the Tagger returned by from_config (NoTagger before, or on error)
    again,          \* the value returned by from_config(tagger) (NoTagger before)
    err,            \* the exception that ended the current call ("none" if none)
    built,          \* numbers of Filter, Setter and Tagger objects constructed so far
    items,          \* the `items` argument of set_tags
    collections,    \* the `collections` argument of set_tags
    tags,           \* the fields of every item (mutated in place by setters)
    tags0,          \* the fields of every item when set_tags was called
    k,              \* number of bindings the outer loop has taken
    setter,         \* position in self.setters of the outer loop's current FilteredSetter
    filtered_items, \* the output of the current binding's filter
    idx,            \* index of the current item in filtered_items (inner loop)
    item,           \* the current item of the inner loop (0 before the first)
    collection,     \* the collection resolved for the current item
    s,              \* index of the last setter invoked in FilteredSetter.set_tags
    filterLog,      \* per binding run so far: the filter's argument, output and the tags it read
    calls           \* every setter invocation so far, in order

vars == <<pc, config, tagger, again, err, built, items, collections, tags, tags0,
          k, setter, filtered_items, idx, item, collection, s, filterLog, calls>>

(***************************************************************************)
(* Bounds of the model.                                                    *)
(***************************************************************************)
NumItems == 3   \* items are 1..NumItems
MaxRules == 2   \* a configuration holds at most MaxRules rules

Item == 1..NumItems

(***************************************************************************)
(* Fields.  LocalTrackField is an enum whose member names are upper case;  *)
(* from_name looks a name up ignoring case.                                *)
(***************************************************************************)
Field == {"BPM", "GENRE"}

\* str.upper on the keys the model uses
Upper(name) ==
    CASE name \in {"bpm", "BPM", "Bpm"} -> "BPM"
      [] name \in {"genre", "GENRE", "Genre"} -> "GENRE"
      [] name = "filter" -> "FILTER"
      [] name = "field" -> "FIELD"
      [] name = "not_a_real_field" -> "NOT_A_REAL_FIELD"
      [] OTHER -> name

\* LocalTrackField.from_name(fld): the fields of that name; raises when there is none.
from_name(fld) ==
    IF Upper(fld) \in Field
    THEN [err |-> "none", fields |-> <<Upper(fld)>>]
    ELSE [err |-> "UnknownFieldError", fields |-> <<>>]

(***************************************************************************)
(* Factories.  A filter spec or a setter config is a record [kind, fld,    *)
(* val]; kind "malformed" stands for every shape the factory rejects.      *)
(***************************************************************************)
\* get_comparers_filter(spec)
get_comparers_filter(spec) ==
    IF spec.kind \in {"all", "is"}
    THEN [err |-> "none", filter |-> spec]
    ELSE [err |-> "InvalidFilterSpecError", filter |-> spec]

\* setter_from_config(field, rule_config): a Setter bound to `field`
setter_from_config(field, rule_config) ==
    IF rule_config.kind \in {"value", "copy", "total"}
    THEN [err |-> "none",
          setter |-> [field |-> field, kind |-> rule_config.kind,
                      fld |-> rule_config.fld, val |-> rule_config.val]]
    ELSE [err |-> "InvalidSetterSpecError",
          setter |-> [field |-> field, kind |-> rule_config.kind,
                      fld |-> rule_config.fld, val |-> rule_config.val]]

\* FilterDefinedList(): the default filter of a FilteredSetter, which matches every item
FilterDefinedList == [kind |-> "all", fld |-> "BPM", val |-> 0]

(***************************************************************************)
(* A mapping is a sequence of <<key, value>> pairs with distinct keys, in  *)
(* the mapping's iteration order.                                          *)
(***************************************************************************)
\* key in m
HasKey(m, key) == \E i \in 1..Len(m) : m[i][1] = key

\* m[key]
Get(m, key) == m[CHOOSE i \in 1..Len(m) : m[i][1] = key][2]

\* Variant of Reserved in which `field` is not reserved.
ReservedOnlyFilter == {"filter"}

\* Line 60: the keys of a rule that name no setter.
Reserved == {"filter", "field"}

\* The list comprehension of lines 58-61, evaluated left to right over the
\* pairs of the mapping from position i on; `acc` holds the setters built so far.
RECURSIVE BuildSetters(_, _, _)
BuildSetters(m, i, acc) ==
    IF i > Len(m) THEN [err |-> "none", setters |-> acc]
    ELSE IF m[i][1] \in Reserved THEN BuildSetters(m, i + 1, acc)
    ELSE LET found == from_name(m[i][1]) IN
         IF found.err # "none" THEN [err |-> found.err, setters |-> acc]
         ELSE LET made == setter_from_config(Head(found.fields), m[i][2]) IN
              IF made.err # "none" THEN [err |-> made.err, setters |-> acc]
              ELSE BuildSetters(m, i + 1, Append(acc, made.setter))

\* Lines 54-62: one element of the configuration to one FilteredSetter.
\* nf and ns count the Filters and Setters constructed on the way.
CompileRule(rule_set) ==
    IF rule_set.type = "FilteredSetter"
    THEN [err |-> "none", nf |-> 0, ns |-> 0,
          setter |-> [filter |-> rule_set.filter, setters |-> rule_set.setters]]
    ELSE IF ~HasKey(rule_set.pairs, "filter")
    THEN [err |-> "KeyError", nf |-> 0, ns |-> 0,
          setter |-> [filter |-> FilterDefinedList, setters |-> <<>>]]
    ELSE LET condition == get_comparers_filter(Get(rule_set.pairs, "filter")) IN
         IF condition.err # "none"
         THEN [err |-> condition.err, nf |-> 0, ns |-> 0,
               setter |-> [filter |-> FilterDefinedList, setters |-> <<>>]]
         ELSE LET setters == BuildSetters(rule_set.pairs, 1, <<>>) IN
              [err |-> setters.err, nf |-> 1, ns |-> Len(setters.setters),
               setter |-> [filter |-> condition.filter, setters |-> setters.setters]]

\* Lines 52-64: the loop over the configuration from position i on.
RECURSIVE CompileRules(_, _, _)
CompileRules(rules, i, acc) ==
    IF i > Len(rules) THEN acc
    ELSE LET one == CompileRule(rules[i])
             nxt == [err |-> one.err, nf |-> acc.nf + one.nf, ns |-> acc.ns + one.ns,
                     tag_setters |-> IF one.err = "none"
                                     THEN Append(acc.tag_setters, one.setter)
                                     ELSE acc.tag_setters] IN
         IF one.err # "none" THEN nxt ELSE CompileRules(rules, i + 1, nxt)

\* Stands for "no Tagger": nothing was returned
NoTagger == [type |-> "None", oid |-> 0, setters |-> <<>>]

\* Variant of Compile that swallows the error: the bindings built before the
\* failing rule are returned as a Tagger.
CompilePartial(cfg, b) ==
    LET out == CompileRules(cfg.rules, 1,
                   [err |-> "none", nf |-> 0, ns |-> 0, tag_setters |-> <<>>]) IN
    [err |-> out.err,
     result |-> [type |-> "Tagger", oid |-> b.taggers + 1, setters |-> out.tag_setters],
     built |-> [filters |-> b.filters + out.nf, setters |-> b.setters + out.ns,
                taggers |-> b.taggers + 1]]

\* Lines 52-66: the configuration is compiled rule by rule and cls(tag_setters)
\* is constructed at the end; an exception raised on the way leaves from_config.
\* `b` counts the objects built before the call.  The result holds the
\* exception ("none" when the call returns), the value returned and the
\* objects built after the call.
Compile(cfg, b) ==
    LET out == CompileRules(cfg.rules, 1,
                   [err |-> "none", nf |-> 0, ns |-> 0, tag_setters |-> <<>>]) IN
    [err |-> out.err,
     result |-> IF out.err = "none"
                THEN [type |-> "Tagger", oid |-> b.taggers + 1, setters |-> out.tag_setters]
                ELSE NoTagger,
     built |-> [filters |-> b.filters + out.nf, setters |-> b.setters + out.ns,
                taggers |-> IF out.err = "none" THEN b.taggers + 1 ELSE b.taggers]]

\* Variant of from_config without lines 49-50: a Tagger is taken apart and
\* compiled again.
from_config_rebuild(cfg, b) ==
    IF cfg.type = "Tagger"
    THEN Compile([type |-> "list",
                  rules |-> [i \in 1..Len(cfg.setters) |->
                               [type |-> "FilteredSetter", pairs |-> <<>>,
                                filter |-> cfg.setters[i].filter,
                                setters |-> cfg.setters[i].setters]]], b)
    ELSE Compile(cfg, b)

\* Lines 46-66: Tagger.from_config(cfg)
from_config(cfg, b) ==
    IF cfg.type = "Tagger"
    THEN [err |-> "none", result |-> cfg, built |-> b]
    ELSE Compile(cfg, b)

(***************************************************************************)
(* The inputs the model draws from.                                        *)
(***************************************************************************)
\* One item of a mapping: a key and its value
P(key, kind, fld, val) == <<key, [kind |-> kind, fld |-> fld, val |-> val]>>

\* A raw rule of the configuration
Mapping(pairs) ==
    [type |-> "Mapping", pairs |-> pairs, filter |-> FilterDefinedList, setters |-> <<>>]

\* Rules that compile: genre 2 gets bpm 1; every item gets bpm 2, then genre
\* copied from bpm; bpm 1 gets genre 1 (with the reserved key `field`); every
\* item gets the size of its collection as bpm (`filter` is the last key);
\* genre 2 gets genre 1 and bpm 1; and an already built FilteredSetter().
ValidRules ==
    { Mapping(<<P("filter", "is", "GENRE", 2), P("bpm", "value", "BPM", 1)>>),
      Mapping(<<P("filter", "all", "BPM", 0), P("bpm", "value", "BPM", 2),
                P("genre", "copy", "BPM", 0)>>),
      Mapping(<<P("filter", "is", "BPM", 1), P("field", "router", "BPM", 0),
                P("GENRE", "value", "BPM", 1)>>),
      Mapping(<<P("Bpm", "total", "BPM", 0), P("filter", "all", "BPM", 0)>>),
      Mapping(<<P("filter", "is", "GENRE", 2), P("genre", "value", "BPM", 1),
                P("bpm", "value", "BPM", 1)>>),
      [type |-> "FilteredSetter", pairs |-> <<>>, filter |-> FilterDefinedList,
       setters |-> <<>>] }

\* Rules that do not compile: an unknown field after a known one; no `filter`
\* key (and an unknown field); a filter spec and a setter config that their
\* factories reject.
InvalidRules ==
    { Mapping(<<P("filter", "all", "BPM", 0), P("bpm", "value", "BPM", 1),
                P("not_a_real_field", "value", "BPM", 1)>>),
      Mapping(<<P("not_a_real_field", "value", "BPM", 1), P("bpm", "value", "BPM", 1)>>),
      Mapping(<<P("filter", "malformed", "BPM", 0), P("bpm", "value", "BPM", 1)>>),
      Mapping(<<P("filter", "all", "BPM", 0), P("bpm", "malformed", "BPM", 0)>>) }

Rules == ValidRules \cup InvalidRules

\* The configurations from_config is called with
Configs ==
    { [type |-> "list", rules |-> r] :
        r \in UNION { [1..n -> Rules] : n \in 0..MaxRules } }

\* The orders in which the caller can pass the items.
ItemOrders == { o \in [1..NumItems -> Item] : \A i, j \in 1..NumItems : o[i] = o[j] => i = j }

\* The collections the caller can pass: an item may be in one collection, in
\* several or in none.
CollectionChoices == { <<{1, 2}, Item>>, <<{3}, {2, 3}>>, <<>> }

\* The fields of the items when set_tags is called: items of two genres, no bpm yet.
InitialTags ==
    { [i \in Item |-> [f \in Field |-> IF f = "GENRE" THEN 1 + (i % 2) ELSE 0]] }

(***************************************************************************)
(* Filters and setters at run time.                                        *)
(***************************************************************************)
\* Item i, with the fields t, satisfies the filter
Matches(filter, i, t) ==
    \/ filter.kind = "all"
    \/ filter.kind = "is" /\ t[i][filter.fld] = filter.val

\* Filter.__call__(values): the matching items, in the order of `values`
Filter(filter, values, t) == SelectSeq(values, LAMBDA i : Matches(filter, i, t))

\* The value Setter.set(item, coll) assigns to its field
SetterValue(st, it, coll, t) ==
    CASE st.kind = "value" -> st.val
      [] st.kind = "copy" -> t[it][st.fld]
      [] st.kind = "total" -> Cardinality(coll)

(***************************************************************************)
(* Tagger.set_tags and FilteredSetter.set_tags.                            *)
(***************************************************************************)
\* Line 83: the positions of the collections that contain the item
Containing(it, colls) == { j \in 1..Len(colls) : it \in colls[j] }

\* Variant of OwningCollection that takes the last collection containing the item.
OwningCollectionLast(it, colls) ==
    IF Containing(it, colls) = {} THEN {}
    ELSE colls[CHOOSE j \in Containing(it, colls) :
                 \A j2 \in Containing(it, colls) : j2 <= j]

\* Line 83: next(iter(coll for coll in collections if item in coll), ())
OwningCollection(it, colls) ==
    IF Containing(it, colls) = {} THEN {}
    ELSE colls[CHOOSE j \in Containing(it, colls) :
                 \A j2 \in Containing(it, colls) : j <= j2]

\* Variant of FilterInput that hands a filter the output of the previous one.
FilterInputNarrowed == IF k = 0 THEN items ELSE filtered_items

\* Line 80: the argument of setter.filter
FilterInput == items

\* Variant of FilterView in which filters read the fields set_tags started with.
FilterViewInitial == tags0

\* Line 80: the fields the filter reads are those the items have when it runs
FilterView == tags

\* Variant of LoopItems in which the inner loop walks all the items.
LoopItemsAll == items

\* Variant of LoopItems in which the filter is evaluated anew at every step of
\* the inner loop.
LoopItemsLazy == Filter(tagger.setters[setter].filter, items, tags)

\* Line 82: the sequence the inner loop walks
LoopItems == filtered_items

\* Variant of SetterView in which setters read the fields as they were when the
\* binding's filter ran.
SetterViewSnapshot == filterLog[Len(filterLog)].tags

\* Line 31: the fields a setter reads are those the item has when it is invoked
SetterView == tags

\* Variant of NextSetterIndex in which the bindings are taken last to first.
NextSetterIndexReversed == Len(tagger.setters) - k

\* Line 79: the position in self.setters of the binding the loop takes next
NextSetterIndex == k + 1

\* The FilteredSetter the outer loop variable holds
Binding == tagger.setters[setter]

Init ==
    /\ pc = "start"
    /\ config \in Configs
    /\ tagger = NoTagger
    /\ again = NoTagger
    /\ err = "none"
    /\ built = [filters |-> 0, setters |-> 0, taggers |-> 0]
    /\ items = <<>>
    /\ collections = <<>>
    /\ tags \in InitialTags
    /\ tags0 = tags
    /\ k = 0
    /\ setter = 0
    /\ filtered_items = <<>>
    /\ idx = 0
    /\ item = 0
    /\ collection = {}
    /\ s = 0
    /\ filterLog = <<>>
    /\ calls = <<>>

applyVars == <<items, collections, tags, tags0, k, setter, filtered_items, idx, item,
               collection, s, filterLog, calls>>

\* Tagger.from_config(config) on the raw configuration.
FromConfig ==
    /\ pc = "start"
    /\ LET out == from_config(config, built) IN
         /\ tagger' = out.result
         /\ err' = out.err
         /\ built' = out.built
         /\ pc' = IF out.err = "none" THEN "compiled" ELSE "compile_error"
    /\ UNCHANGED <<config, again>>
    /\ UNCHANGED applyVars

\* Tagger.from_config(tagger) on the Tagger already compiled.
FromConfigTagger ==
    /\ pc = "compiled"
    /\ LET out == from_config(tagger, built) IN
         /\ again' = out.result
         /\ err' = out.err
         /\ built' = out.built
    /\ pc' = "ready"
    /\ UNCHANGED <<config, tagger>>
    /\ UNCHANGED applyVars

\* The caller calls tagger.set_tags(items, collections).
CallSetTags ==
    /\ pc = "ready"
    /\ \E its \in ItemOrders, colls \in CollectionChoices :
         /\ items' = its
         /\ collections' = colls
    /\ k' = 0
    /\ pc' = "binding"
    /\ UNCHANGED <<config, tagger, again, err, built, tags, tags0, setter, filtered_items,
                   idx, item, collection, s, filterLog, calls>>

\* Lines 79-80: the outer loop takes the next binding and runs its filter.
RunFilter ==
    /\ pc = "binding"
    /\ k < Len(tagger.setters)
    /\ k' = k + 1
    /\ setter' = NextSetterIndex
    /\ LET out == Filter(tagger.setters[NextSetterIndex].filter, FilterInput, FilterView) IN
         /\ filtered_items' = out
         /\ filterLog' = Append(filterLog, [binding |-> NextSetterIndex, arg |-> FilterInput,
                                            out |-> out, tags |-> FilterView,
                                            ncalls |-> Len(calls)])
    /\ idx' = 0
    /\ pc' = "item"
    /\ UNCHANGED <<config, tagger, again, err, built, items, collections, tags, tags0,
                   item, collection, s, calls>>

\* Line 79: the outer loop is exhausted and set_tags returns.
Return ==
    /\ pc = "binding"
    /\ k = Len(tagger.setters)
    /\ pc' = "done"
    /\ UNCHANGED <<config, tagger, again, err, built>>
    /\ UNCHANGED applyVars

\* Lines 82-84: the inner loop takes the next matched item, resolves its
\* collection and enters FilteredSetter.set_tags.
NextItem ==
    /\ pc = "item"
    /\ idx < Len(LoopItems)
    /\ idx' = idx + 1
    /\ item' = LoopItems[idx + 1]
    /\ collection' = OwningCollection(LoopItems[idx + 1], collections)
    /\ s' = 0
    /\ pc' = "setter"
    /\ UNCHANGED <<config, tagger, again, err, built, items, collections, tags, tags0, k,
                   setter, filtered_items, filterLog, calls>>

\* Line 82: the inner loop is exhausted.
EndBinding ==
    /\ pc = "item"
    /\ idx >= Len(LoopItems)
    /\ pc' = "binding"
    /\ UNCHANGED <<config, tagger, again, err, built>>
    /\ UNCHANGED applyVars

\* Lines 30-31: the next setter of the binding runs on the current item and
\* assigns its field.
SetterSet ==
    /\ pc = "setter"
    /\ s < Len(Binding.setters)
    /\ s' = s + 1
    /\ LET st == Binding.setters[s + 1]
           value == SetterValue(st, item, collection, SetterView) IN
         /\ tags' = [tags EXCEPT ![item][st.field] = value]
         /\ calls' = Append(calls, [binding |-> setter,
                                    setter |-> s + 1, item |-> item, coll |-> collection,
                                    field |-> st.field, value |-> value, ok |-> TRUE])
    /\ UNCHANGED <<pc, config, tagger, again, err, built, items, collections, tags0, k,
                   setter, filtered_items, idx, item, collection, filterLog>>

\* Variant of SetterRaise in which the error is swallowed and the chain goes on.
SetterRaiseSwallowed ==
    /\ pc = "setter"
    /\ s < Len(Binding.setters)
    /\ s' = s + 1
    /\ LET st == Binding.setters[s + 1] IN
         calls' = Append(calls, [binding |-> setter,
                                 setter |-> s + 1, item |-> item, coll |-> collection,
                                 field |-> st.field, value |-> 0, ok |-> FALSE])
    /\ UNCHANGED <<pc, err, config, tagger, again, built, items, collections, tags, tags0, k,
                   setter, filtered_items, idx, item, collection, filterLog>>

\* Lines 30-31 and 84: the next setter raises; neither set_tags catches, so
\* the error leaves Tagger.set_tags.
SetterRaise ==
    /\ pc = "setter"
    /\ s < Len(Binding.setters)
    /\ s' = s + 1
    /\ LET st == Binding.setters[s + 1] IN
         calls' = Append(calls, [binding |-> setter,
                                 setter |-> s + 1, item |-> item, coll |-> collection,
                                 field |-> st.field, value |-> 0, ok |-> FALSE])
    /\ err' = "SetterError"
    /\ pc' = "raised"
    /\ UNCHANGED <<config, tagger, again, built, items, collections, tags, tags0, k,
                   setter, filtered_items, idx, item, collection, filterLog>>

\* Line 30: the setters are exhausted and FilteredSetter.set_tags returns.
EndChain ==
    /\ pc = "setter"
    /\ s = Len(Binding.setters)
    /\ pc' = "item"
    /\ UNCHANGED <<config, tagger, again, err, built>>
    /\ UNCHANGED applyVars

Next ==
    \/ FromConfig
    \/ FromConfigTagger
    \/ CallSetTags
    \/ RunFilter
    \/ Return
    \/ NextItem
    \/ EndBinding
    \/ SetterSet
    \/ SetterRaise
    \/ EndChain

Spec == Init /\ [][Next]_vars

(***************************************************************************)
(* Vocabulary of the properties.                                           *)
(***************************************************************************)
Bindings == 1..Len(tagger.setters)

Max(S) == CHOOSE x \in S : \A y \in S : y <= x

Min(S) == CHOOSE x \in S : \A y \in S : x <= y

\* The positions of x in the sequence q.
Positions(q, x) == { i \in 1..Len(q) : q[i] = x }

\* The runs of binding b's filter.
Entries(b) == { e \in 1..Len(filterLog) : filterLog[e].binding = b }

\* Item i is in the output of binding b's filter.
Matched(b, i) == \E e \in Entries(b) : Positions(filterLog[e].out, i) # {}

\* Binding b has a setter bound to field f.
WritesField(b, f) ==
    \E j \in 1..Len(tagger.setters[b].setters) : tagger.setters[b].setters[j].field = f

\* The completed invocations of binding b's setters of field f on item i.
CallsOf(b, i, f) ==
    { c \in 1..Len(calls) :
        calls[c].binding = b /\ calls[c].item = i /\ calls[c].field = f /\ calls[c].ok }

\* The invocations of binding b's setters on item i.
Chain(b, i) == { c \in 1..Len(calls) : calls[c].binding = b /\ calls[c].item = i }

\* The value of field f of item i after the first n invocations.
ValueAt(n, i, f) ==
    LET wrote == { c \in 1..n : calls[c].item = i /\ calls[c].field = f /\ calls[c].ok } IN
      IF wrote = {} THEN tags0[i][f] ELSE calls[Max(wrote)].value

\* The fields of the items after the first n invocations.
ReplayTo(n) == [i \in Item |-> [f \in Field |-> ValueAt(n, i, f)]]

(***************************************************************************)
(* C1.  Last-write-wins across bindings.  When set_tags has returned        *)
(* normally, for all bindings b1 declared before b2, every item matched by  *)
(* both filters and every field both have a setter for: both wrote the      *)
(* field on the item, every write of b2 came after every write of b1, and   *)
(* the field holds the value written by the last setter of that field of    *)
(* b2, unless a binding declared after b2 also matched the item and wrote   *)
(* the field (then that one wins over b2 in the same way).  The items are   *)
(* passed in every order.                                                   *)
(***************************************************************************)
C1_LastWriteWins ==
    pc = "done" =>
      \A b1 \in Bindings, b2 \in Bindings, i \in Item, f \in Field :
        (b1 < b2 /\ Matched(b1, i) /\ Matched(b2, i) /\ WritesField(b1, f) /\ WritesField(b2, f))
        => /\ CallsOf(b1, i, f) # {}
           /\ CallsOf(b2, i, f) # {}
           /\ Max(CallsOf(b1, i, f)) < Min(CallsOf(b2, i, f))
           /\ (~\E b3 \in Bindings : b3 > b2 /\ Matched(b3, i) /\ WritesField(b3, f))
              => tags[i][f] = calls[Max(CallsOf(b2, i, f))].value

\* Two bindings wrote different values to one field of an item that is not
\* the first item passed, and set_tags returned.
C1_Witness ==
    /\ pc = "done"
    /\ \E b1 \in Bindings, b2 \in Bindings, i \in Item, f \in Field :
         /\ b1 < b2
         /\ Matched(b1, i) /\ Matched(b2, i)
         /\ CallsOf(b1, i, f) # {} /\ CallsOf(b2, i, f) # {}
         /\ calls[Max(CallsOf(b1, i, f))].value # calls[Max(CallsOf(b2, i, f))].value
         /\ items[1] # i

(***************************************************************************)
(* C2.  Fail-fast mid-apply.  A setter that raises is the last setter ever  *)
(* invoked, and set_tags ends with its error.  At that point every item the *)
(* failing binding matched before the failing item has had each setter of   *)
(* the binding invoked once and keeps what they wrote; on the failing item  *)
(* only the setters up to the failing one were invoked; no item matched     *)
(* after it and no later binding was processed; every earlier write is      *)
(* still in place.                                                          *)
(***************************************************************************)
C2_FailFast ==
    /\ \A c \in 1..Len(calls) :
         ~calls[c].ok => c = Len(calls) /\ pc = "raised" /\ err = "SetterError"
    /\ pc = "raised" =>
         /\ calls # <<>>
         /\ LET fail == calls[Len(calls)]
                b == fail.binding
                n == Len(tagger.setters[b].setters)
                out == filterLog[Max(Entries(b))].out
                p == Min(Positions(out, fail.item)) IN
              /\ ~fail.ok
              /\ \A q \in 1..(p - 1) :
                   /\ \A j \in 1..n :
                        Cardinality({ c \in Chain(b, out[q]) :
                                        calls[c].setter = j /\ calls[c].ok }) = 1
                   /\ \A f \in Field :
                        CallsOf(b, out[q], f) # {}
                        => tags[out[q]][f] = calls[Max(CallsOf(b, out[q], f))].value
              /\ \A c \in Chain(b, fail.item) : calls[c].setter <= fail.setter
              /\ \A q \in (p + 1)..Len(out) : Chain(b, out[q]) = {}
              /\ \A c \in 1..Len(calls) : calls[c].binding <= b
              /\ \A e \in 1..Len(filterLog) : filterLog[e].binding <= b
         /\ tags = ReplayTo(Len(calls))

\* The first of two setters raised on the second matched item, after both
\* had run on the first; a later binding and a later item were left.
C2_Witness ==
    /\ pc = "raised"
    /\ LET fail == calls[Len(calls)]
           out == filterLog[Len(filterLog)].out IN
         /\ fail.setter = 1
         /\ Len(tagger.setters[fail.binding].setters) = 2
         /\ Len(out) >= 3
         /\ out[2] = fail.item
         /\ Cardinality(Chain(fail.binding, out[1])) = 2
         /\ tags[out[1]] # tags0[out[1]]
         /\ fail.binding < Len(tagger.setters)

(***************************************************************************)
(* C3.  Collection resolution.  Every setter invocation receives the first  *)
(* of `collections` that contains the item, and the empty collection when   *)
(* none contains it; the resolution itself raises nothing.                  *)
(***************************************************************************)
C3_CollectionResolution ==
    /\ \A c \in 1..Len(calls) :
         LET holding == { j \in 1..Len(collections) : calls[c].item \in collections[j] } IN
           /\ holding = {} => calls[c].coll = {}
           /\ holding # {} =>
                /\ calls[c].coll = collections[Min(holding)]
                /\ \A j \in 1..Len(collections) :
                     calls[c].coll = collections[j] => calls[c].item \in collections[j]
    /\ pc = "setter" =>
         /\ err = "none"
         /\ (\A j \in 1..Len(collections) : item \notin collections[j]) => collection = {}

\* One item in two collections of different size received the first one,
\* another item in no collection received the empty collection, and
\* set_tags returned.
C3_Witness ==
    /\ pc = "done"
    /\ \E c \in 1..Len(calls) :
         /\ Cardinality({ j \in 1..Len(collections) : calls[c].item \in collections[j] }) = 2
         /\ calls[c].coll # collections[2]
    /\ \E c \in 1..Len(calls) :
         /\ calls[c].ok
         /\ \A j \in 1..Len(collections) : calls[c].item \notin collections[j]
         /\ calls[c].coll = {}

(***************************************************************************)
(* C4.  Filter independence.  The argument of every binding's filter is the *)
(* `items` sequence the caller passed, whatever earlier filters returned.   *)
(***************************************************************************)
C4_FilterIndependence ==
    \A e \in 1..Len(filterLog) : filterLog[e].arg = items

\* The first binding's filter kept a proper part of the items and the second
\* binding's filter returned an item the first had dropped.
C4_Witness ==
    /\ Len(filterLog) = 2
    /\ Len(filterLog[1].out) < Len(items)
    /\ \E i \in Item :
         /\ Positions(filterLog[1].out, i) = {}
         /\ Positions(filterLog[2].out, i) # {}

(***************************************************************************)
(* C5.  Setters run only on matched items.  Every setter invocation is on   *)
(* an item in the output of its binding's filter; a binding whose filter    *)
(* matched nothing invokes no setter; when set_tags has returned, an item   *)
(* that no filter matched has all its fields as they were.                  *)
(***************************************************************************)
C5_OnlyMatchedItems ==
    /\ \A c \in 1..Len(calls) : Matched(calls[c].binding, calls[c].item)
    /\ \A e \in 1..Len(filterLog) :
         filterLog[e].out = <<>>
         => ~\E c \in 1..Len(calls) : calls[c].binding = filterLog[e].binding
    /\ pc = "done" =>
         \A i \in Item : (\A b \in Bindings : ~Matched(b, i)) => tags[i] = tags0[i]

\* set_tags returned after one binding with setters matched nothing and
\* another modified two items and left a third, unmatched, alone.
C5_Witness ==
    /\ pc = "done"
    /\ err = "none"
    /\ \E e \in 1..Len(filterLog) :
         /\ filterLog[e].out = <<>>
         /\ tagger.setters[filterLog[e].binding].setters # <<>>
    /\ Cardinality({ i \in Item : tags[i] # tags0[i] }) = 2
    /\ \E i \in Item : (\A b \in Bindings : ~Matched(b, i)) /\ tags[i] = tags0[i]

(***************************************************************************)
(* Vocabulary of the compilation properties, stated on the configuration.  *)
(***************************************************************************)
IsSetterKey(key) == key \notin {"filter", "field"}

\* The pairs of a mapping that name a field, in the mapping's order.
SetterPairs(m) == SelectSeq(m, LAMBDA p : IsSetterKey(p[1]))

\* Pair j of rule i of the configuration is a key that names no field.
UnknownAt(cfg, i, j) ==
    /\ cfg.rules[i].type = "Mapping"
    /\ IsSetterKey(cfg.rules[i].pairs[j][1])
    /\ Upper(cfg.rules[i].pairs[j][1]) \notin Field

HasUnknownKey(cfg) ==
    \E i \in 1..Len(cfg.rules) : \E j \in 1..Len(cfg.rules[i].pairs) : UnknownAt(cfg, i, j)

\* The rule has a `filter` key whose spec the filter factory accepts.
GoodHead(r) ==
    \/ r.type = "FilteredSetter"
    \/ /\ HasKey(r.pairs, "filter")
       /\ Get(r.pairs, "filter").kind \in {"all", "is"}

\* The pair is reserved, or names a field with a config the setter factory accepts.
GoodPair(p) ==
    \/ ~IsSetterKey(p[1])
    \/ Upper(p[1]) \in Field /\ p[2].kind \in {"value", "copy", "total"}

GoodRule(r) == GoodHead(r) /\ \A j \in 1..Len(r.pairs) : GoodPair(r.pairs[j])

\* Nothing that from_config evaluates before the unknown key is invalid.
UnknownKeyFailsFirst(cfg) ==
    \E i \in 1..Len(cfg.rules) : \E j \in 1..Len(cfg.rules[i].pairs) :
      /\ UnknownAt(cfg, i, j)
      /\ \A i2 \in 1..(i - 1) : GoodRule(cfg.rules[i2])
      /\ GoodHead(cfg.rules[i])
      /\ \A j2 \in 1..(j - 1) : GoodPair(cfg.rules[i].pairs[j2])

C7_CompilationOrder ==
    /\ (pc # "start" /\ \A i \in 1..Len(config.rules) : config.rules[i] \in ValidRules)
       => tagger.type = "Tagger"
    /\ tagger.type = "Tagger" =>
         /\ Len(tagger.setters) = Len(config.rules)
         /\ \A i \in 1..Len(config.rules) :
              LET r == config.rules[i]
                  b == tagger.setters[i]
                  keys == SetterPairs(r.pairs) IN
                IF r.type = "FilteredSetter"
                THEN b = [filter |-> r.filter, setters |-> r.setters]
                ELSE /\ b.filter = Get(r.pairs, "filter")
                     /\ Len(b.setters) = Len(keys)
                     /\ \A j \in 1..Len(keys) :
                          /\ b.setters[j].field = Upper(keys[j][1])
                          /\ b.setters[j].kind = keys[j][2].kind
                          /\ b.setters[j].fld = keys[j][2].fld
                          /\ b.setters[j].val = keys[j][2].val

\* Two different mappings compiled, one holding the key `field`, one with
\* two setters, one with `filter` after a field key.
C7_Witness ==
    /\ tagger.type = "Tagger"
    /\ Len(tagger.setters) = 2
    /\ config.rules[1] # config.rules[2]
    /\ \E i \in 1..2 : HasKey(config.rules[i].pairs, "field")
    /\ \E i \in 1..2 : Len(tagger.setters[i].setters) = 2

(***************************************************************************)
(* C8.  Idempotent pass-through.  from_config on the Tagger that            *)
(* from_config returned gives back that very Tagger, with its bindings in   *)
(* their order, and constructs no Filter, Setter or Tagger: after both      *)
(* calls exactly one Tagger exists, with one Filter per compiled mapping    *)
(* and one Setter per field key.                                            *)
(***************************************************************************)
C8_PassThrough ==
    pc \notin {"start", "compiled", "compile_error"} =>
      /\ again = tagger
      /\ again.oid = tagger.oid
      /\ again.setters = tagger.setters
      /\ err = "none" \/ pc = "raised"
      /\ built.taggers = 1
      /\ built.filters = Cardinality({ i \in 1..Len(config.rules) :
                                          config.rules[i].type = "Mapping" })
      /\ \A i \in 1..Len(config.rules) :
           config.rules[i].type = "Mapping"
           => Len(tagger.setters[i].setters) = Len(SetterPairs(config.rules[i].pairs))

\* The second call returned, for a Tagger of two bindings with setters.
C8_Witness ==
    /\ pc = "ready"
    /\ again.type = "Tagger"
    /\ Len(again.setters) = 2
    /\ built.setters >= 3

(***************************************************************************)
(* C9.  Setter chain order within a binding.  The invocations on one item   *)
(* by one binding are consecutive and run through the binding's setters in  *)
(* declared order from the first, all with the collection resolved for the  *)
(* item; a chain that is over without an error ran every setter exactly     *)
(* once; every setter computed its value from the fields as the invocations *)
(* before it left them; and a binding's chains follow the order of its      *)
(* filter's output.                                                         *)
(***************************************************************************)
C9_ChainOrder ==
    /\ \A c \in 1..Len(calls) :
         LET first == c = 1 \/ calls[c - 1].binding # calls[c].binding
                            \/ calls[c - 1].item # calls[c].item IN
           /\ first => calls[c].setter = 1
           /\ ~first => /\ calls[c].setter = calls[c - 1].setter + 1
                        /\ calls[c].coll = calls[c - 1].coll
           /\ calls[c].field = tagger.setters[calls[c].binding].setters[calls[c].setter].field
           /\ calls[c].ok =>
                calls[c].value =
                  SetterValue(tagger.setters[calls[c].binding].setters[calls[c].setter],
                              calls[c].item, calls[c].coll, ReplayTo(c - 1))
    /\ \A c \in 1..Len(calls) :
         (c < Len(calls) \/ pc \in {"item", "binding", "done"}) =>
           LET over == c = Len(calls) \/ calls[c + 1].binding # calls[c].binding
                                      \/ calls[c + 1].item # calls[c].item IN
             over => /\ calls[c].setter = Len(tagger.setters[calls[c].binding].setters)
                     /\ Cardinality(Chain(calls[c].binding, calls[c].item)) = calls[c].setter
    /\ \A c \in 1..Len(calls) :
         LET out == filterLog[Max(Entries(calls[c].binding))].out
             pos == Min(Positions(out, calls[c].item)) IN
           IF c = 1 \/ calls[c - 1].binding # calls[c].binding THEN pos = 1
           ELSE \/ calls[c - 1].item = calls[c].item
                \/ pos = Min(Positions(out, calls[c - 1].item)) + 1
    /\ tags = ReplayTo(Len(calls))

\* The second setter of a chain copied the value the first setter had just
\* written, which differs from the value the field had when the binding's
\* filter ran; two items went through the chain.
C9_Witness ==
    /\ pc = "done"
    /\ \E c \in 2..Len(calls) :
         LET st == tagger.setters[calls[c].binding].setters[calls[c].setter] IN
           /\ st.kind = "copy"
           /\ calls[c].setter = 2
           /\ calls[c].value = calls[c - 1].value
           /\ calls[c].value #
                filterLog[Max(Entries(calls[c].binding))].tags[calls[c].item][st.fld]
           /\ \E c2 \in 1..Len(calls) :
                calls[c2].binding = calls[c].binding /\ calls[c2].item # calls[c].item

(***************************************************************************)
(* C10.  Filters are evaluated on current item state, once per binding.     *)
(* Each binding's filter runs once, after every setter invocation of the    *)
(* bindings before it and before any of its own, and its output is what the *)
(* filter selects from `items` with the fields as those invocations left    *)
(* them; when a binding is over without an error, its setters have run on   *)
(* exactly the items of that output, whatever they wrote meanwhile.         *)
(***************************************************************************)
C10_FilterOnCurrentState ==
    /\ \A e \in 1..Len(filterLog) :
         LET L == filterLog[e] IN
           /\ L.ncalls <= Len(calls)
           /\ L.tags = ReplayTo(L.ncalls)
           /\ L.out = Filter(tagger.setters[L.binding].filter, items, ReplayTo(L.ncalls))
           /\ \A c \in 1..Len(calls) :
                /\ calls[c].binding < L.binding => c <= L.ncalls
                /\ calls[c].binding = L.binding => c > L.ncalls
           /\ \A e2 \in 1..Len(filterLog) : e < e2 => L.binding < filterLog[e2].binding
           /\ ((e < Len(filterLog) \/ pc \in {"binding", "done"})
               /\ tagger.setters[L.binding].setters # <<>>)
              => \A i \in Item : Positions(L.out, i) # {} <=> Chain(L.binding, i) # {}

\* set_tags returned after a binding matched an item that did not match
\* before the earlier binding wrote to it, and after a binding whose own
\* writes made the items it processed stop matching its filter.
C10_Witness ==
    /\ pc = "done"
    /\ \E e \in 1..Len(filterLog), i \in Item :
         /\ Positions(filterLog[e].out, i) # {}
         /\ ~Matches(tagger.setters[filterLog[e].binding].filter, i, tags0)
    /\ \E e \in 1..Len(filterLog) :
         LET L == filterLog[e] IN
           /\ Len(L.out) >= 2
           /\ \A q \in 1..Len(L.out) : Chain(L.binding, L.out[q]) # {}
           /\ Filter(tagger.setters[L.binding].filter, items, ReplayTo(
                  IF e < Len(filterLog) THEN filterLog[e + 1].ncalls ELSE Len(calls))) = <<>>

====
